---- MODULE Spec2Model ----
(***************************************************************************)
(* A model of todo-cli-rs: the cell grid (Buffer), the double-buffered     *)
(* VirtualScreen with its diff, and the immediate-mode layout stack (Ui).  *)
(*                                                                         *)
(* Seven specifications share the module:                                  *)
(*   SpecBuffer  one Buffer driven through resize/clear/put_cell/put_cells *)
(*               and diffed against itself                                 *)
(*   SpecScreen  one VirtualScreen driven through its grid methods         *)
(*   SpecEmit    apply_patches applied to the patch lists diff() returns   *)
(*   SpecUi      one Ui driven through begin/begin_layout/labels/end, the  *)
(*               layout stack at full depth over an empty terminal         *)
(*   SpecDraw    one Ui drawing frames of labels on a terminal with cells  *)
(*   SpecTerm    frames written to the grid and emitted to a terminal that *)
(*               executes the queued commands                              *)
(*   SpecApp     the App and the Ui driven by the events poll_events reads *)
(* A text is a sequence of glyphs (what str::chars() yields).  usize and   *)
(* i32 values stay far below their widths within the bounds used here, and *)
(* positions and widths are non-negative, so every `as usize` cast keeps    *)
(* its value.  stdout is seen through the commands the last call queued to *)
(* it.  A panic aborts the process: no action follows it.                  *)
(***************************************************************************)
EXTENDS Integers, Sequences, FiniteSets, TLC

VARIABLES
    buf,        \* SpecBuffer: the Buffer under test
    bop,        \* SpecBuffer: the last Buffer method called, with its arguments
    buf_curr,   \* VirtualScreen.buf_curr
    buf_prev,   \* VirtualScreen.buf_prev
    patches,    \* the Vec<Patch> the last diff() returned; <<>> once a later call follows
    vop,        \* the name of the last VirtualScreen method called
    clean,      \* TRUE when swap() was called and nothing was written since
    layouts,    \* Ui.layouts: the stack of open Layout frames, the top last
    added,      \* per open frame, the aggregate of what it received, as the rule states it
    nlabels,    \* how many labels were drawn since the last Ui::begin
    uop,        \* the last Ui method called: name, stack depth before, position used
    arg,        \* SpecDraw: the arguments of the last label call
    out,        \* the commands the last call queued to stdout, in order
    term,       \* SpecTerm: the physical terminal: cells, cursor, active colours
    app,        \* SpecApp: the App: quit, active_status, edit_mode, edit_cursor, lists
    ev,         \* SpecApp: the last event poll_events handled
    panic       \* "" while the program runs; else the call that panicked

bufVars == <<buf, bop>>
driverVars == <<patches, vop, clean>>
gridVars == <<buf_curr, buf_prev>>
screenVars == <<buf_curr, buf_prev, patches, vop, clean>>
uiVars == <<layouts, added, nlabels, uop>>
auxVars == <<arg, out>>
hostVars == <<term, app, ev>>
vars == <<buf, bop, buf_curr, buf_prev, patches, vop, clean,
          layouts, added, nlabels, uop, arg, out, term, app, ev, panic>>

(***************************************************************************)
(* Bounds and input sets                                                   *)
(***************************************************************************)
\* A Buffer of SpecBuffer holds at most this many cells (width * height).
MaxCells == 4
\* A VirtualScreen grid holds at most this many cells (width * height).
MaxScreenCells == 4

\* A patch list of SpecEmit comes from a grid of at most this many cells.
MaxPatchCells == 4

\* The terminal of SpecTerm holds at most this many cells (width * height).
MaxTermCells == 4

\* The two item lists of SpecApp hold at most this many items together.
MaxItems == 2
\* An item of SpecApp holds at most this many characters.
MaxItemLen == 1

\* At most this many Layout frames are open at once.
MaxDepth == 3
\* At most this many labels are drawn between Ui::begin and Ui::end.
MaxLabels == 3

Dims(n) == {d \in (0..n) \X (0..n) : d[1] * d[2] <= n}

\* What SpecBuffer writes: texts, single glyphs, and (fg, bg) pairs.
Texts == {<<>>, <<"A", "B">>, <<"A", "B", "C">>}
Glyphs == {"A"}
ColorPairs == {<<"Black", "White">>}

\* What SpecScreen writes.
ScreenTexts == {<<"A">>, <<"A", "A">>}
ScreenGlyphs == {"A"}
ScreenColorPairs == {<<"Cyan", "Black">>}

\* What the patches of SpecEmit carry: the default cell and cells that differ
\* from it in the foreground alone, the background alone, and both.
PatchCells == {[ch |-> " ", fg |-> "White", bg |-> "Black"],
               [ch |-> "A", fg |-> "Cyan", bg |-> "Black"],
               [ch |-> "B", fg |-> "White", bg |-> "White"],
               [ch |-> "C", fg |-> "Cyan", bg |-> "White"]}

\* What SpecTerm writes into the current grid between Ui::begin and Ui::end.
TermTexts == {<<"A">>, <<"A", "A">>}
TermGlyphs == {"A"}
TermColorPairs == {<<"Cyan", "Black">>}

\* What SpecApp starts from and receives: the titles the file holds, the
\* characters typed, the pasted data, the terminal size at start and the
\* sizes a Resize event reports.
AppTitles == {<<"a">>}
AppChars == {"a"}
AppPastes == {<<>>, <<"a">>}
AppScreens == {<<2, 1>>}
AppSizes == {1, 2}

\* What SpecDraw draws, and the terminal it draws on: the root is a Vert
\* frame anchored at the origin as in main(), a label takes one of two texts
\* (one of them a two-byte glyph) and a fixed-width label is wider than
\* either.  The terminal has one row of four cells, so the first label of a
\* frame lands on it and the later ones fall below it.
DrawScreens == {<<4, 1>>}
DrawAnchors == {<<0, 0>>}
DrawKinds == {"Vert"}
DrawTexts == {<<"A", "B">>, <<"e'">>}
DrawWidths == {3}
DrawColorPairs == {<<"Black", "White">>}

\* What SpecUi draws: root anchors, label texts, fixed widths, one colour pair,
\* and the terminal size handed to Ui::new and Ui::resize.  SpecUi is about
\* the layout stack and runs over an empty terminal, where every write is
\* out of range; the grids' cells are the subject of SpecBuffer and SpecScreen.
UiAnchors == {<<0, 0>>, <<1, 2>>}
UiTexts == {<<"C">>, <<"A", "B">>, <<"e'">>}
UiWidths == {3}
UiColorPairs == {<<"Black", "White">>}
UiScreens == {<<0, 0>>}
Kinds == {"Vert", "Horz"}

Min(a, b) == IF a < b THEN a ELSE b
Max(a, b) == IF a > b THEN a ELSE b

\* No label drawn and nothing queued yet.
NoLabel == [text |-> <<>>, width |-> 0, fg |-> "White", bg |-> "Black"]
IdleAux == arg = NoLabel /\ out = <<>>

(***************************************************************************)
(* Cell and Buffer (screen_buf.rs)                                         *)
(***************************************************************************)
Cell(ch, fg, bg) == [ch |-> ch, fg |-> fg, bg |-> bg]

DefaultCell == Cell(" ", "White", "Black")

BufferNew(width, height) ==
    [cells |-> [i \in 1..(width * height) |-> DefaultCell],
     width |-> width, height |-> height]

\* The resize without the fill that follows it: surviving cells keep their content.
BufferResizeNoFill(b, width, height) ==
    [cells |-> [i \in 1..(width * height) |->
                    IF i <= Len(b.cells) THEN b.cells[i] ELSE DefaultCell],
     width |-> width, height |-> height]

\* Vec::resize(width * height, default), then fill(default).
BufferResize(b, width, height) ==
    LET resized == [i \in 1..(width * height) |->
                        IF i <= Len(b.cells) THEN b.cells[i] ELSE DefaultCell]
        filled == [i \in 1..Len(resized) |-> DefaultCell]
    IN [cells |-> filled, width |-> width, height |-> height]

BufferClear(b) == [b EXCEPT !.cells = [i \in 1..Len(b.cells) |-> DefaultCell]]

\* cells.get_mut(y * width + x): the flat index alone is range-checked.
BufferPutCell(b, x, y, ch, fg, bg) ==
    LET idx == y * b.width + x
    IN IF idx < Len(b.cells)
       THEN [b EXCEPT !.cells[idx + 1] = Cell(ch, fg, bg)]
       ELSE b

\* The loop writes chs[offset] at flat index start + offset and breaks at the
\* first index past the end of cells; the indices only grow, so every later
\* one is past the end too.
BufferPutCells(b, x, y, chs, fg, bg) ==
    LET start == y * b.width + x
    IN [b EXCEPT !.cells = [i \in 1..Len(b.cells) |->
            IF i - 1 >= start /\ i - 1 - start < Len(chs)
            THEN Cell(chs[i - start], fg, bg)
            ELSE b.cells[i]]]

\* zip().enumerate().filter(a != b).map(i -> Patch{other's cell, i % w, i / w}).
\* The assert on equal dimensions is the caller's guard (DiffPanics).
DiffPanics(a, other) == ~(a.width = other.width /\ a.height = other.height)

\* A slip of the coordinate arithmetic: x and y exchanged.
BufferDiffSwappedXY(a, other) ==
    LET n == Min(Len(a.cells), Len(other.cells))
        idx == SelectSeq([i \in 1..n |-> i - 1],
                         LAMBDA i : a.cells[i + 1] # other.cells[i + 1])
    IN [k \in 1..Len(idx) |->
            [cell |-> other.cells[idx[k] + 1],
             x |-> idx[k] \div a.width,
             y |-> idx[k] % a.width]]

\* The filter dropped: every zipped pair becomes a patch.
BufferDiffUnfiltered(a, other) ==
    LET n == Min(Len(a.cells), Len(other.cells))
    IN [k \in 1..n |->
            [cell |-> other.cells[k],
             x |-> (k - 1) % a.width,
             y |-> (k - 1) \div a.width]]

BufferDiff(a, other) ==
    LET n == Min(Len(a.cells), Len(other.cells))
        idx == SelectSeq([i \in 1..n |-> i - 1],
                         LAMBDA i : a.cells[i + 1] # other.cells[i + 1])
    IN [k \in 1..Len(idx) |->
            [cell |-> other.cells[idx[k] + 1],
             x |-> idx[k] % a.width,
             y |-> idx[k] \div a.width]]

\* The cell at column x of row y of a grid (a reader; x < width, y < height).
CellAt(b, x, y) == b.cells[y * b.width + x + 1]

(***************************************************************************)
(* apply_patches (screen_buf.rs): the commands queued to the terminal      *)
(***************************************************************************)
MoveTo(x, y) == <<"MoveTo", x, y>>
SetForegroundColor(c) == <<"SetForegroundColor", c>>
SetBackgroundColor(c) == <<"SetBackgroundColor", c>>
PrintCh(ch) == <<"Print", ch>>
ClearAll == <<"Clear", "All">>

\* The state before the loop: the cached colours, the position of the
\* patch before, and the two colour commands queued up front.
ApplyStart ==
    [fg_curr |-> "White", bg_curr |-> "Black", x_prev |-> 0, y_prev |-> 0,
     cmds |-> <<SetForegroundColor("White"), SetBackgroundColor("Black")>>]

\* One iteration whose colour cache is never updated.
PatchStepStaleCache(st, p) ==
    [st EXCEPT !.x_prev = p.x, !.y_prev = p.y,
               !.cmds = st.cmds
                   \o (IF ~(st.y_prev = p.y /\ st.x_prev + 1 = p.x)
                       THEN <<MoveTo(p.x, p.y)>> ELSE <<>>)
                   \o (IF st.fg_curr # p.cell.fg
                       THEN <<SetForegroundColor(p.cell.fg)>> ELSE <<>>)
                   \o (IF st.bg_curr # p.cell.bg
                       THEN <<SetBackgroundColor(p.cell.bg)>> ELSE <<>>)
                   \o <<PrintCh(p.cell.ch)>>]

\* One iteration of the loop over the patches.
PatchStep(st, p) ==
    [fg_curr |-> p.cell.fg, bg_curr |-> p.cell.bg, x_prev |-> p.x, y_prev |-> p.y,
     cmds |-> st.cmds
                  \o (IF ~(st.y_prev = p.y /\ st.x_prev + 1 = p.x)
                      THEN <<MoveTo(p.x, p.y)>> ELSE <<>>)
                  \o (IF st.fg_curr # p.cell.fg
                      THEN <<SetForegroundColor(p.cell.fg)>> ELSE <<>>)
                  \o (IF st.bg_curr # p.cell.bg
                      THEN <<SetBackgroundColor(p.cell.bg)>> ELSE <<>>)
                  \o <<PrintCh(p.cell.ch)>>]

\* Buffer::flush: clear the terminal, home the cursor, print every cell.
FlushStart ==
    [fg_curr |-> "White", bg_curr |-> "Black",
     cmds |-> <<ClearAll, SetForegroundColor("White"), SetBackgroundColor("Black"),
                MoveTo(0, 0)>>]

FlushStep(st, c) ==
    [fg_curr |-> c.fg, bg_curr |-> c.bg,
     cmds |-> st.cmds
                  \o (IF st.fg_curr # c.fg THEN <<SetForegroundColor(c.fg)>> ELSE <<>>)
                  \o (IF st.bg_curr # c.bg THEN <<SetBackgroundColor(c.bg)>> ELSE <<>>)
                  \o <<PrintCh(c.ch)>>]

RECURSIVE FlushLoop(_, _)
FlushLoop(st, cells) ==
    IF cells = <<>> THEN st ELSE FlushLoop(FlushStep(st, cells[1]), Tail(cells))

BufferFlush(b) == FlushLoop(FlushStart, b.cells).cmds

RECURSIVE ApplyLoop(_, _)
ApplyLoop(st, ps) ==
    IF ps = <<>> THEN st ELSE ApplyLoop(PatchStep(st, ps[1]), Tail(ps))

ApplyPatches(ps) == ApplyLoop(ApplyStart, ps).cmds

(***************************************************************************)
(* SpecBuffer: one Buffer                                                  *)
(***************************************************************************)
NoArgs == [op |-> "new", x |-> 0, y |-> 0, chs |-> <<>>, fg |-> "White", bg |-> "Black"]

InitBuffer ==
    /\ \E d \in Dims(MaxCells) : buf = BufferNew(d[1], d[2])
    /\ bop = NoArgs

IdleBuffer ==
    /\ buf = BufferNew(0, 0)
    /\ bop = NoArgs

BufResize ==
    \E d \in Dims(MaxCells) :
        /\ buf' = BufferResize(buf, d[1], d[2])
        /\ bop' = [NoArgs EXCEPT !.op = "resize", !.x = d[1], !.y = d[2]]

BufClear ==
    /\ buf' = BufferClear(buf)
    /\ bop' = [NoArgs EXCEPT !.op = "clear"]

BufPutCell ==
    \E x \in 0..(buf.width + 1), y \in 0..buf.height, ch \in Glyphs, c \in ColorPairs :
        /\ buf' = BufferPutCell(buf, x, y, ch, c[1], c[2])
        /\ bop' = [op |-> "put_cell", x |-> x, y |-> y, chs |-> <<ch>>,
                   fg |-> c[1], bg |-> c[2]]

BufPutCells ==
    \E x \in 0..buf.width, y \in 0..buf.height, chs \in Texts, c \in ColorPairs :
        /\ buf' = BufferPutCells(buf, x, y, chs, c[1], c[2])
        /\ bop' = [op |-> "put_cells", x |-> x, y |-> y, chs |-> chs,
                   fg |-> c[1], bg |-> c[2]]

\* buf.diff(&buf): a grid diffed against itself; the dimensions agree.
BufDiff ==
    /\ patches' = BufferDiff(buf, buf)
    /\ bop' = [NoArgs EXCEPT !.op = "diff"]
    /\ UNCHANGED buf

(***************************************************************************)
(* SpecScreen: one VirtualScreen                                           *)
(***************************************************************************)
NoCall == "new"

InitScreen ==
    /\ \E d \in Dims(MaxScreenCells) :
        /\ buf_curr = BufferNew(d[1], d[2])
        /\ buf_prev = BufferNew(d[1], d[2])
    /\ patches = <<>>
    /\ vop = NoCall
    /\ clean = FALSE

IdleScreen ==
    /\ buf_curr = BufferNew(0, 0)
    /\ buf_prev = BufferNew(0, 0)
    /\ patches = <<>>
    /\ vop = NoCall
    /\ clean = FALSE

\* The second resize forgotten: the previous grid keeps its old size.
VirtualScreenResizeCurrOnly(curr, prev, w, h) ==
    [buf_curr |-> BufferResize(curr, w, h), buf_prev |-> prev]

\* self.buf_curr.resize(new_w, new_h); self.buf_prev.resize(new_w, new_h)
VirtualScreenResize(curr, prev, w, h) ==
    [buf_curr |-> BufferResize(curr, w, h), buf_prev |-> BufferResize(prev, w, h)]

VsResize ==
    \E d \in Dims(MaxScreenCells) :
        /\ panic = ""
        /\ UNCHANGED panic
        /\ buf_curr' = VirtualScreenResize(buf_curr, buf_prev, d[1], d[2]).buf_curr
        /\ buf_prev' = VirtualScreenResize(buf_curr, buf_prev, d[1], d[2]).buf_prev
        /\ vop' = "resize"
        /\ clean' = FALSE
        /\ patches' = <<>>

\* The direction reversed: current diffed against previous.
VirtualScreenDiffReversed(prev, curr) == BufferDiff(curr, prev)

\* self.buf_prev.diff(&self.buf_curr)
VirtualScreenDiff(prev, curr) == BufferDiff(prev, curr)

VsDiff ==
    /\ panic = ""
    /\ vop' = "diff"
    /\ IF DiffPanics(buf_prev, buf_curr)
       THEN panic' = "diff" /\ patches' = <<>>
       ELSE patches' = VirtualScreenDiff(buf_prev, buf_curr) /\ UNCHANGED panic
    /\ UNCHANGED <<buf_curr, buf_prev, clean>>

VsPutCell ==
    \E x \in 0..(buf_curr.width + 1), y \in 0..buf_curr.height,
       ch \in ScreenGlyphs, c \in ScreenColorPairs :
        /\ panic = ""
        /\ UNCHANGED panic
        /\ buf_curr' = BufferPutCell(buf_curr, x, y, ch, c[1], c[2])
        /\ vop' = "put_cell"
        /\ clean' = FALSE
        /\ patches' = <<>>
        /\ UNCHANGED buf_prev

VsPutCells ==
    \E x \in 0..buf_curr.width, y \in 0..buf_curr.height,
       chs \in ScreenTexts, c \in ScreenColorPairs :
        /\ panic = ""
        /\ UNCHANGED panic
        /\ buf_curr' = BufferPutCells(buf_curr, x, y, chs, c[1], c[2])
        /\ vop' = "put_cells"
        /\ clean' = FALSE
        /\ patches' = <<>>
        /\ UNCHANGED buf_prev

\* mem::swap(&mut self.buf_curr, &mut self.buf_prev)
VsSwap ==
    /\ panic = ""
    /\ UNCHANGED panic
    /\ buf_curr' = buf_prev
    /\ buf_prev' = buf_curr
    /\ vop' = "swap"
    /\ clean' = TRUE
    /\ patches' = <<>>

(***************************************************************************)
(* SpecEmit: apply_patches over the patch lists diff() can return          *)
(***************************************************************************)
\* A cell diff() found unchanged yields no patch.
NoPatch == [ch |-> "", fg |-> "", bg |-> ""]

\* The patch list diff() returns for grids of width w that differ exactly
\* at the flat indices i - 1 with f[i] # NoPatch, f[i] being the new cell.
PatchList(w, f) ==
    LET idx == SelectSeq([i \in 1..Len(f) |-> i - 1], LAMBDA i : f[i + 1] # NoPatch)
    IN [k \in 1..Len(idx) |->
            [cell |-> f[idx[k] + 1], x |-> idx[k] % w, y |-> idx[k] \div w]]

InitEmit ==
    /\ \E d \in Dims(MaxPatchCells) :
        /\ d[1] > 0
        /\ \E f \in [1..(d[1] * d[2]) -> PatchCells \cup {NoPatch}] :
               patches = PatchList(d[1], f)
    /\ out = <<>>

\* apply_patches(&mut stdout, &patches)
EmApplyPatches ==
    /\ out = <<>>
    /\ out' = ApplyPatches(patches)
    /\ UNCHANGED patches

(***************************************************************************)
(* Vec2, Layout and Ui (ui.rs)                                             *)
(***************************************************************************)
Vec2(x, y) == [x |-> x, y |-> y]
Vec2Null == Vec2(0, 0)
Vec2Add(a, b) == Vec2(a.x + b.x, a.y + b.y)
Vec2Mul(a, b) == Vec2(a.x * b.x, a.y * b.y)

Abs(n) == IF n < 0 THEN 0 - n ELSE n
Spaces(n) == [i \in 1..n |-> " "]

\* str::len() counts UTF-8 bytes, chars().count() counts glyphs.
Utf8Len(ch) == IF ch = "e'" THEN 2 ELSE 1
RECURSIVE StrLen(_)
StrLen(chs) == IF chs = <<>> THEN 0 ELSE Utf8Len(Head(chs)) + StrLen(Tail(chs))
CharsCount(chs) == Len(chs)

NewLayout(kind, pos) == [kind |-> kind, pos |-> pos, size |-> Vec2Null]

\* The flow axes exchanged.
AvailablePosSwapped(l) ==
    IF l.kind = "Horz"
    THEN Vec2Add(l.pos, Vec2Mul(l.size, Vec2(0, 1)))
    ELSE Vec2Add(l.pos, Vec2Mul(l.size, Vec2(1, 0)))

AvailablePos(l) ==
    IF l.kind = "Horz"
    THEN Vec2Add(l.pos, Vec2Mul(l.size, Vec2(1, 0)))
    ELSE Vec2Add(l.pos, Vec2Mul(l.size, Vec2(0, 1)))

\* A Vert frame that sums widths as a Horz frame does.
AddWidgetSumWidth(l, size) ==
    IF l.kind = "Horz"
    THEN [l EXCEPT !.size = Vec2(l.size.x + size.x, Max(l.size.y, size.y))]
    ELSE [l EXCEPT !.size = Vec2(l.size.x + size.x, l.size.y + size.y)]

\* The max dropped: the cross-axis extent is that of the last widget.
AddWidgetLastExtent(l, size) ==
    IF l.kind = "Horz"
    THEN [l EXCEPT !.size = Vec2(l.size.x + size.x, size.y)]
    ELSE [l EXCEPT !.size = Vec2(size.x, l.size.y + size.y)]

AddWidget(l, size) ==
    IF l.kind = "Horz"
    THEN [l EXCEPT !.size = Vec2(l.size.x + size.x, Max(l.size.y, size.y))]
    ELSE [l EXCEPT !.size = Vec2(Max(l.size.x, size.x), l.size.y + size.y)]

Top(ls) == ls[Len(ls)]
Pop(ls) == SubSeq(ls, 1, Len(ls) - 1)

\* The assert left out.
BeginNeverPanics(ls) == FALSE

\* Ui::begin: assert!(self.layouts.is_empty())
BeginPanics(ls) == ls # <<>>

\* The popped frame dropped without being folded into its parent.
EndLayoutNoFold(ls) == Pop(ls)

\* Ui::end_layout once both expect()s passed: pop, then add_widget on the new top.
EndLayout(ls) ==
    LET layout == Top(ls)
        rest == Pop(ls)
    IN [rest EXCEPT ![Len(rest)] = AddWidget(rest[Len(rest)], layout.size)]

\* Ui::label_fixed_width's two put_cells: the text at pos, then the fill,
\* whose length is |layout.size.x - width - 4|, at pos.x + width.
DrawLabel(curr, layout, text, width, fg, bg) ==
    LET pos == AvailablePos(layout)
        drawn == BufferPutCells(curr, pos.x, pos.y, text, fg, bg)
        fill == Spaces(Abs(layout.size.x - width - 4))
    IN BufferPutCells(drawn, pos.x + width, pos.y, fill, fg, bg)

\* Ui::label_edit's caret cells after the label.
DrawCaret(curr, pos, len, fg, bg, edit) ==
    IF edit
    THEN BufferPutCell(BufferPutCell(curr, pos.x + len, pos.y, " ", fg, fg),
                       pos.x + len + 1, pos.y, " ", bg, bg)
    ELSE BufferPutCell(curr, pos.x + len, pos.y, " ", bg, bg)

(***************************************************************************)
(* SpecUi: one Ui                                                          *)
(***************************************************************************)
\* The aggregate of the sizes a frame has received so far, as the layout rule
\* states it: across the flow the maximum, along the flow the sum.
NoneAdded == [w |-> 0, h |-> 0]
Adding(a, kind, size) ==
    [w |-> IF kind = "Vert" THEN Max(a.w, size.x) ELSE a.w + size.x,
     h |-> IF kind = "Vert" THEN a.h + size.y ELSE Max(a.h, size.y)]

Called(op, pos) == [op |-> op, depth |-> Len(layouts), pos |-> pos]

\* Ui::new(w, h): an empty stack over a blank screen.
InitUi ==
    /\ \E d \in UiScreens :
        /\ buf_curr = BufferNew(d[1], d[2])
        /\ buf_prev = BufferNew(d[1], d[2])
        /\ out = BufferFlush(BufferNew(d[1], d[2]))
    /\ layouts = <<>>
    /\ added = <<>>
    /\ nlabels = 0
    /\ uop = [op |-> "new", depth |-> 0, pos |-> Vec2Null]

IdleUi ==
    /\ layouts = <<>>
    /\ added = <<>>
    /\ nlabels = 0
    /\ uop = [op |-> "new", depth |-> 0, pos |-> Vec2Null]

\* A failing call that wrote a cell of the current grid before it failed.
PanicsAfterWrite(op, ls) ==
    /\ panic' = op
    /\ layouts' = ls
    /\ added' = SubSeq(added, 1, Len(ls))
    /\ UNCHANGED nlabels
    /\ uop' = Called(op, Vec2Null)
    /\ out' = <<>>
    /\ buf_curr' = BufferPutCell(buf_curr, 0, 0, " ", "Black", "White")
    /\ UNCHANGED buf_prev

\* A panicking call: the process aborts with the state as the call left it.
Panics(op, ls) ==
    /\ panic' = op
    /\ layouts' = ls
    /\ added' = SubSeq(added, 1, Len(ls))
    /\ UNCHANGED nlabels
    /\ uop' = Called(op, Vec2Null)
    /\ out' = <<>>
    /\ UNCHANGED gridVars


\* The body of Ui::resize(width, height).
ResizeCall(width, height) ==
    /\ buf_curr' = VirtualScreenResize(buf_curr, buf_prev, width, height).buf_curr
    /\ buf_prev' = VirtualScreenResize(buf_curr, buf_prev, width, height).buf_prev
    /\ out' = BufferFlush(buf_prev')
    /\ uop' = Called("resize", Vec2Null)
    /\ UNCHANGED <<layouts, added, nlabels, panic>>

UiResize ==
    /\ panic = ""
    /\ \E d \in UiScreens : ResizeCall(d[1], d[2])

\* The body of Ui::begin(pos, kind).
BeginCall(pos, kind) ==
    IF BeginPanics(layouts)
    THEN Panics("begin", layouts)
    ELSE /\ layouts' = Append(layouts, NewLayout(kind, pos))
         /\ added' = Append(added, NoneAdded)
         /\ nlabels' = 0
         /\ uop' = Called("begin", pos)
         /\ out' = <<>>
         /\ UNCHANGED <<gridVars, panic>>

UiBegin ==
    /\ panic = ""
    /\ \E p \in UiAnchors, kind \in Kinds : BeginCall(Vec2(p[1], p[2]), kind)

UiBeginLayout ==
    /\ panic = ""
    /\ Len(layouts) < MaxDepth
    /\ \E kind \in Kinds :
        IF layouts = <<>>
        THEN Panics("begin_layout", layouts)
        ELSE LET pos == AvailablePos(Top(layouts))
             IN /\ layouts' = Append(layouts, NewLayout(kind, pos))
                /\ added' = Append(added, NoneAdded)
                /\ uop' = Called("begin_layout", pos)
                /\ out' = <<>>
                /\ UNCHANGED <<gridVars, nlabels, panic>>

UiEndLayout ==
    /\ panic = ""
    /\ IF layouts = <<>>
       THEN Panics("end_layout", layouts)
       ELSE IF Pop(layouts) = <<>>
       THEN Panics("end_layout", Pop(layouts))
       ELSE /\ layouts' = EndLayout(layouts)
            /\ added' = [Pop(added) EXCEPT ![Len(added) - 1] =
                            Adding(added[Len(added) - 1], layouts[Len(layouts) - 1].kind,
                                   Top(layouts).size)]
            /\ uop' = Called("end_layout", Vec2Null)
            /\ out' = <<>>
            /\ UNCHANGED <<gridVars, nlabels, panic>>

\* The body of label_fixed_width, shared by its three entry points; caret is
\* what label_edit draws after it.
LabelCall(op, text, width, fg, bg, caret, edit) ==
    IF layouts = <<>>
    THEN Panics(op, layouts)
    ELSE LET layout == Top(layouts)
             pos == AvailablePos(layout)
             drawn == DrawLabel(buf_curr, layout, text, width, fg, bg)
         IN /\ nlabels < MaxLabels
            /\ nlabels' = nlabels + 1
            /\ buf_curr' = IF caret
                           THEN DrawCaret(drawn, pos, CharsCount(text), fg, bg, edit)
                           ELSE drawn
            /\ layouts' = [layouts EXCEPT ![Len(layouts)] =
                              AddWidget(layout, Vec2(width, 1))]
            /\ added' = [added EXCEPT ![Len(added)] =
                            Adding(added[Len(added)], layout.kind, Vec2(width, 1))]
            /\ uop' = Called(op, pos)
            /\ out' = <<>>
            /\ UNCHANGED <<buf_prev, panic>>

UiLabelFixedWidth ==
    /\ panic = ""
    /\ \E text \in UiTexts, width \in UiWidths, c \in UiColorPairs :
        LabelCall("label_fixed_width", text, width, c[1], c[2], FALSE, FALSE)

UiLabelEdit ==
    /\ panic = ""
    /\ \E text \in UiTexts, c \in UiColorPairs, edit \in BOOLEAN :
        LabelCall("label_edit", text, CharsCount(text), c[1], c[2], TRUE, edit)

UiLabel ==
    /\ panic = ""
    /\ \E text \in UiTexts, c \in UiColorPairs :
        LabelCall("label", text, StrLen(text), c[1], c[2], FALSE, FALSE)

\* Ui::end: pop the root, hand diff() to apply_patches, swap.
UiEnd ==
    /\ panic = ""
    /\ IF layouts = <<>>
       THEN Panics("end", layouts)
       ELSE IF DiffPanics(buf_prev, buf_curr)
       THEN Panics("end", Pop(layouts))
       ELSE /\ layouts' = Pop(layouts)
            /\ added' = Pop(added)
            /\ out' = ApplyPatches(VirtualScreenDiff(buf_prev, buf_curr))
            /\ buf_curr' = buf_prev
            /\ buf_prev' = buf_curr
            /\ uop' = Called("end", Vec2Null)
            /\ UNCHANGED <<nlabels, panic>>

(***************************************************************************)
(* SpecDraw: frames of labels drawn by one Ui onto a terminal with cells   *)
(***************************************************************************)
InitDraw ==
    /\ \E d \in DrawScreens :
        /\ buf_curr = BufferNew(d[1], d[2])
        /\ buf_prev = BufferNew(d[1], d[2])
        /\ out = BufferFlush(BufferNew(d[1], d[2]))
    /\ IdleUi
    /\ arg = NoLabel

LabelArgs(text, width, fg, bg) == [text |-> text, width |-> width, fg |-> fg, bg |-> bg]

DrBegin ==
    /\ panic = ""
    /\ \E p \in DrawAnchors, kind \in DrawKinds : BeginCall(Vec2(p[1], p[2]), kind)
    /\ UNCHANGED arg

DrLabelFixedWidth ==
    /\ panic = ""
    /\ \E text \in DrawTexts, width \in DrawWidths, c \in DrawColorPairs :
        /\ LabelCall("label_fixed_width", text, width, c[1], c[2], FALSE, FALSE)
        /\ arg' = LabelArgs(text, width, c[1], c[2])

DrLabelEdit ==
    /\ panic = ""
    /\ \E text \in DrawTexts, c \in DrawColorPairs, edit \in BOOLEAN :
        /\ LabelCall("label_edit", text, CharsCount(text), c[1], c[2], TRUE, edit)
        /\ arg' = LabelArgs(text, CharsCount(text), c[1], c[2])

DrLabel ==
    /\ panic = ""
    /\ \E text \in DrawTexts, c \in DrawColorPairs :
        /\ LabelCall("label", text, StrLen(text), c[1], c[2], FALSE, FALSE)
        /\ arg' = LabelArgs(text, StrLen(text), c[1], c[2])

DrEnd == UiEnd /\ UNCHANGED arg

(***************************************************************************)
(* The physical terminal behind stdout, and SpecTerm: frames of writes     *)
(* into the current grid, each ended by Ui::end, shown on that terminal    *)
(***************************************************************************)
\* What Clear leaves in a cell: a blank in the terminal's own colours.
ClearedCell == [ch |-> " ", fg |-> "Reset", bg |-> "Reset"]

\* A terminal of w columns and h rows before anything was written to it.
Terminal(w, h) ==
    [cells |-> [i \in 1..(w * h) |-> ClearedCell], width |-> w, height |-> h,
     x |-> 0, y |-> 0, fg |-> "Reset", bg |-> "Reset"]

\* No terminal attached.
NoTerminal == Terminal(0, 0)

\* Print: the glyph lands under the cursor in the active colours and the
\* cursor advances one column, wrapping to the next row at the right edge;
\* below the last row nothing is shown.
TermPrint(t, ch) ==
    IF t.x < t.width /\ t.y < t.height
    THEN [t EXCEPT !.cells[t.y * t.width + t.x + 1] = Cell(ch, t.fg, t.bg),
                   !.x = IF t.x + 1 < t.width THEN t.x + 1 ELSE 0,
                   !.y = IF t.x + 1 < t.width THEN t.y ELSE t.y + 1]
    ELSE t

\* The effect of one queued command on the terminal.
TermCmd(t, c) ==
    CASE c[1] = "Clear" ->
             [t EXCEPT !.cells = [i \in 1..Len(t.cells) |-> ClearedCell]]
      [] c[1] = "SetForegroundColor" -> [t EXCEPT !.fg = c[2]]
      [] c[1] = "SetBackgroundColor" -> [t EXCEPT !.bg = c[2]]
      [] c[1] = "MoveTo" -> [t EXCEPT !.x = c[2], !.y = c[3]]
      [] c[1] = "Print" -> TermPrint(t, c[2])

\* The terminal after a command list, in order.
RECURSIVE TermRun(_, _)
TermRun(t, cmds) ==
    IF cmds = <<>> THEN t ELSE TermRun(TermCmd(t, cmds[1]), Tail(cmds))

\* Ui::new(w, h) on a terminal of that size: the blank grid is flushed.
InitTerm ==
    /\ \E d \in Dims(MaxTermCells) :
        /\ buf_curr = BufferNew(d[1], d[2])
        /\ buf_prev = BufferNew(d[1], d[2])
        /\ out = BufferFlush(BufferNew(d[1], d[2]))
        /\ term = TermRun(Terminal(d[1], d[2]), BufferFlush(BufferNew(d[1], d[2])))
    /\ IdleUi
    /\ arg = NoLabel

TmBegin ==
    /\ panic = ""
    /\ BeginCall(Vec2Null, "Vert")
    /\ UNCHANGED term

\* ui.screen.put_cell(..) inside a frame.
TmPutCell ==
    \E x \in 0..buf_curr.width, y \in 0..buf_curr.height,
       ch \in TermGlyphs, c \in TermColorPairs :
        /\ panic = "" /\ layouts # <<>>
        /\ buf_curr' = BufferPutCell(buf_curr, x, y, ch, c[1], c[2])
        /\ out' = <<>>
        /\ UNCHANGED <<buf_prev, uiVars, term, panic>>

\* ui.screen.put_cells(..) inside a frame.
TmPutCells ==
    \E x \in 0..buf_curr.width, y \in 0..buf_curr.height,
       chs \in TermTexts, c \in TermColorPairs :
        /\ panic = "" /\ layouts # <<>>
        /\ buf_curr' = BufferPutCells(buf_curr, x, y, chs, c[1], c[2])
        /\ out' = <<>>
        /\ UNCHANGED <<buf_prev, uiVars, term, panic>>

\* Ui::end: what apply_patches queued reaches the terminal.
TmEnd ==
    /\ UiEnd
    /\ term' = TermRun(term, out')

(***************************************************************************)
(* App (main.rs)                                                           *)
(***************************************************************************)
ItemListNew == [items |-> <<>>, cursor |-> 0]

\* App::default()
AppNew ==
    [quit |-> FALSE, active_status |-> "Todo", edit_mode |-> FALSE,
     edit_cursor |-> 0, lists |-> <<ItemListNew, ItemListNew>>]

NoEvent == [kind |-> "none", key |-> "", ctrl |-> FALSE, nw |-> 0, nh |-> 0]
KeyPress(code, ctrl) == [NoEvent EXCEPT !.kind = "Key", !.key = code, !.ctrl = ctrl]

IdleHost == term = NoTerminal /\ app = AppNew /\ ev = NoEvent

\* Status as usize, plus one: the index into App.lists.
StatusIndex(status) == IF status = "Todo" THEN 1 ELSE 2
\* status ^ 1
StatusXor(status) == IF status = "Todo" THEN "Done" ELSE "Todo"

ActiveList(a) == a.lists[StatusIndex(a.active_status)]
ActiveCursor(a) == ActiveList(a).cursor
ActiveItems(a) == ActiveList(a).items
SetActiveList(a, l) == [a EXCEPT !.lists[StatusIndex(a.active_status)] = l]

\* Vec::swap, Vec::remove and Vec::insert at zero-based indices.
VecSwap(v, i, j) == [v EXCEPT ![i + 1] = v[j + 1], ![j + 1] = v[i + 1]]
VecRemove(v, i) == SubSeq(v, 1, i) \o SubSeq(v, i + 2, Len(v))
VecInsert(v, i, e) == SubSeq(v, 1, i) \o <<e>> \o SubSeq(v, i + 1, Len(v))

\* items[cursor] of the active list is out of range: the indexing panics.
IndexPanics(a) == ActiveCursor(a) >= Len(ActiveItems(a))

ListDragUp(l) ==
    IF l.cursor > 0
    THEN [items |-> VecSwap(l.items, l.cursor, l.cursor - 1), cursor |-> l.cursor - 1]
    ELSE l

ListDragDown(l) ==
    IF l.cursor + 1 < Len(l.items)
    THEN [items |-> VecSwap(l.items, l.cursor, l.cursor + 1), cursor |-> l.cursor + 1]
    ELSE l

CursorUp(l) == IF l.cursor > 0 THEN [l EXCEPT !.cursor = l.cursor - 1] ELSE l

CursorDown(l) ==
    IF l.cursor + 1 < Len(l.items) THEN [l EXCEPT !.cursor = l.cursor + 1] ELSE l

EditCursorLeft(a) ==
    IF a.edit_cursor > 0 THEN [a EXCEPT !.edit_cursor = a.edit_cursor - 1] ELSE a

\* Reads items[cursor]; the caller guards with IndexPanics.
EditCursorRight(a) ==
    IF a.edit_cursor < CharsCount(ActiveItems(a)[ActiveCursor(a) + 1])
    THEN [a EXCEPT !.edit_cursor = a.edit_cursor + 1]
    ELSE a

EditCursorBegin(a) == [a EXCEPT !.edit_cursor = 0]

\* Reads items[cursor]; the caller guards with IndexPanics.
EditCursorEnd(a) == [a EXCEPT !.edit_cursor = StrLen(ActiveItems(a)[ActiveCursor(a) + 1])]

\* Writes items[cursor]; the caller guards with IndexPanics.
EditAddChar(a, c) ==
    LET l == ActiveList(a)
        pushed == [l EXCEPT !.items[l.cursor + 1] = Append(l.items[l.cursor + 1], c)]
    IN EditCursorRight(SetActiveList(a, pushed))

\* Reads and writes items[cursor]; the caller guards with IndexPanics.
Backspace(a) ==
    LET l == ActiveList(a)
        item == l.items[l.cursor + 1]
        cut == IF item = <<>> THEN item ELSE SubSeq(item, 1, Len(item) - 1)
    IN EditCursorLeft(SetActiveList(a, [l EXCEPT !.items[l.cursor + 1] = cut]))

\* Reads items[cursor] when edit mode is entered.
SetEditPanics(a, edit_active) == ~a.edit_mode /\ edit_active /\ IndexPanics(a)

SetEdit(a, edit_active) ==
    [(IF ~a.edit_mode /\ edit_active THEN EditCursorEnd(a) ELSE a)
        EXCEPT !.edit_mode = edit_active]

\* The cursor left where it was after the removal.
ListDeleteKeepCursor(a) ==
    LET l == ActiveList(a)
    IN IF l.cursor < Len(l.items)
       THEN SetActiveList(a, [l EXCEPT !.items = VecRemove(l.items, l.cursor)])
       ELSE a

ListDelete(a) ==
    LET l == ActiveList(a)
    IN IF l.cursor < Len(l.items)
       THEN LET items == VecRemove(l.items, l.cursor)
            IN SetActiveList(a, [items |-> items,
                                 cursor |-> IF l.cursor >= Len(items) /\ items # <<>>
                                            THEN l.cursor - 1 ELSE l.cursor])
       ELSE a

ListTransfer(a) ==
    LET l == ActiveList(a)
        to == StatusIndex(StatusXor(a.active_status))
    IN IF l.cursor < Len(l.items)
       THEN LET items == VecRemove(l.items, l.cursor)
                moved == [a EXCEPT !.lists[to].items = Append(@, l.items[l.cursor + 1])]
            IN SetActiveList(moved, [items |-> items,
                                     cursor |-> IF l.cursor >= Len(items) /\ items # <<>>
                                                THEN l.cursor - 1 ELSE l.cursor])
       ELSE a

\* Vec::insert(cursor, String::new()) panics when cursor > len.
NewItemPanics(a) == ActiveCursor(a) > Len(ActiveItems(a))

NewItem(a) ==
    LET l == ActiveList(a)
    IN SetActiveList(a, [l EXCEPT !.items = VecInsert(l.items, l.cursor, <<>>)])

(***************************************************************************)
(* SpecApp: the events poll_events handles                                 *)
(***************************************************************************)
\* How many items the two lists hold together.
ItemCount(a) == Len(a.lists[1].items) + Len(a.lists[2].items)

\* App::new(), load_state(file), Ui::new(w, h).
InitApp ==
    /\ \E todo, done \in UNION {[1..n -> AppTitles] : n \in 0..MaxItems} :
        /\ Len(todo) + Len(done) <= MaxItems
        /\ app = [AppNew EXCEPT !.lists = <<[items |-> todo, cursor |-> 0],
                                            [items |-> done, cursor |-> 0]>>]
    /\ ev = NoEvent
    /\ \E d \in AppScreens :
        /\ buf_curr = BufferNew(d[1], d[2])
        /\ buf_prev = BufferNew(d[1], d[2])
        /\ out = BufferFlush(BufferNew(d[1], d[2]))
    /\ IdleUi

\* An event arm that touches the App alone, and one that ends in a panic.
Handled(e, a) ==
    /\ ev' = e
    /\ app' = a
    /\ UNCHANGED <<gridVars, out, uiVars, panic>>

Crashes(e) ==
    /\ ev' = e
    /\ panic' = "index"
    /\ UNCHANGED <<app, gridVars, out, uiVars>>

\* Event::Resize(nw, nh) => ui.resize(nw as usize, nw as usize)
EvResize ==
    /\ panic = ""
    /\ \E nw, nh \in AppSizes :
        /\ ResizeCall(nw, nw)
        /\ ev' = [NoEvent EXCEPT !.kind = "Resize", !.nw = nw, !.nh = nh]
    /\ UNCHANGED app

\* Event::Paste(data): edit_add_char for every character, in any mode.
RECURSIVE PasteChars(_, _)
PasteChars(a, data) ==
    IF data = <<>> THEN a ELSE PasteChars(EditAddChar(a, data[1]), Tail(data))

EvPaste ==
    /\ panic = ""
    /\ \E data \in AppPastes :
        LET e == [NoEvent EXCEPT !.kind = "Paste", !.key = IF data = <<>> THEN "" ELSE "data"]
        IN IF data # <<>> /\ IndexPanics(app)
           THEN Crashes(e)
           ELSE /\ data # <<>> => Len(ActiveItems(app)[ActiveCursor(app) + 1]) + Len(data) <= MaxItemLen
                /\ Handled(e, PasteChars(app, data))

KeyEditChar ==
    /\ panic = "" /\ app.edit_mode
    /\ \E c \in AppChars :
        IF IndexPanics(app)
        THEN Crashes(KeyPress("Char", FALSE))
        ELSE /\ Len(ActiveItems(app)[ActiveCursor(app) + 1]) < MaxItemLen
             /\ Handled(KeyPress("Char", FALSE), EditAddChar(app, c))

KeyEditLeft ==
    /\ panic = "" /\ app.edit_mode
    /\ Handled(KeyPress("Left", FALSE), EditCursorLeft(app))

KeyEditRight ==
    /\ panic = "" /\ app.edit_mode
    /\ IF IndexPanics(app)
       THEN Crashes(KeyPress("Right", FALSE))
       ELSE Handled(KeyPress("Right", FALSE), EditCursorRight(app))

KeyEditHome ==
    /\ panic = "" /\ app.edit_mode
    /\ Handled(KeyPress("Home", FALSE), EditCursorBegin(app))

KeyEditEnd ==
    /\ panic = "" /\ app.edit_mode
    /\ IF IndexPanics(app)
       THEN Crashes(KeyPress("End", FALSE))
       ELSE Handled(KeyPress("End", FALSE), EditCursorEnd(app))

KeyEditBackspace ==
    /\ panic = "" /\ app.edit_mode
    /\ IF IndexPanics(app)
       THEN Crashes(KeyPress("Backspace", FALSE))
       ELSE Handled(KeyPress("Backspace", FALSE), Backspace(app))

\* Esc or Enter in edit mode.
KeyEditLeave ==
    /\ panic = "" /\ app.edit_mode
    /\ \E code \in {"Esc", "Enter"} : Handled(KeyPress(code, FALSE), SetEdit(app, FALSE))

\* Esc, or Ctrl-c, in view mode.
KeyQuit ==
    /\ panic = "" /\ ~app.edit_mode
    /\ \E e \in {KeyPress("Esc", FALSE), KeyPress("Char", TRUE)} :
        Handled(e, [app EXCEPT !.quit = TRUE])

KeyEnter ==
    /\ panic = "" /\ ~app.edit_mode
    /\ IF SetEditPanics(app, TRUE)
       THEN Crashes(KeyPress("Enter", FALSE))
       ELSE Handled(KeyPress("Enter", FALSE), SetEdit(app, TRUE))

KeyTab ==
    /\ panic = "" /\ ~app.edit_mode
    /\ Handled(KeyPress("Tab", FALSE),
               [app EXCEPT !.active_status = StatusXor(app.active_status)])

KeyUp ==
    /\ panic = "" /\ ~app.edit_mode
    /\ \E ctrl \in BOOLEAN :
        IF ctrl /\ ActiveCursor(app) > 0 /\ IndexPanics(app)
        THEN Crashes(KeyPress("Up", ctrl))
        ELSE Handled(KeyPress("Up", ctrl),
                     SetActiveList(app, IF ctrl THEN ListDragUp(ActiveList(app))
                                        ELSE CursorUp(ActiveList(app))))

KeyDown ==
    /\ panic = "" /\ ~app.edit_mode
    /\ \E ctrl \in BOOLEAN :
        Handled(KeyPress("Down", ctrl),
                SetActiveList(app, IF ctrl THEN ListDragDown(ActiveList(app))
                                   ELSE CursorDown(ActiveList(app))))

KeyLeft ==
    /\ panic = "" /\ ~app.edit_mode
    /\ Handled(KeyPress("Left", FALSE),
               IF app.active_status = "Done" THEN ListTransfer(app) ELSE app)

KeyRight ==
    /\ panic = "" /\ ~app.edit_mode
    /\ Handled(KeyPress("Right", FALSE),
               IF app.active_status = "Todo" THEN ListTransfer(app) ELSE app)

KeyDelete ==
    /\ panic = "" /\ ~app.edit_mode
    /\ Handled(KeyPress("Delete", FALSE), ListDelete(app))

KeyInsert ==
    /\ panic = "" /\ ~app.edit_mode
    /\ ItemCount(app) < MaxItems
    /\ IF NewItemPanics(app)
       THEN Crashes(KeyPress("Insert", FALSE))
       ELSE Handled(KeyPress("Insert", FALSE), NewItem(app))

(***************************************************************************)
(* Specifications                                                          *)
(***************************************************************************)
InitB == InitBuffer /\ IdleScreen /\ IdleUi /\ IdleAux /\ IdleHost /\ panic = ""

NextB ==
    \/ BufResize /\ UNCHANGED <<screenVars, uiVars, auxVars, panic, hostVars>>
    \/ BufClear /\ UNCHANGED <<screenVars, uiVars, auxVars, panic, hostVars>>
    \/ BufPutCell /\ UNCHANGED <<screenVars, uiVars, auxVars, panic, hostVars>>
    \/ BufPutCells /\ UNCHANGED <<screenVars, uiVars, auxVars, panic, hostVars>>
    \/ BufDiff /\ UNCHANGED <<gridVars, vop, clean, uiVars, auxVars, panic, hostVars>>

SpecBuffer == InitB /\ [][NextB]_vars

InitS == IdleBuffer /\ InitScreen /\ IdleUi /\ IdleAux /\ IdleHost /\ panic = ""

NextS ==
    \/ VsResize /\ UNCHANGED <<bufVars, uiVars, auxVars, hostVars>>
    \/ VsDiff /\ UNCHANGED <<bufVars, uiVars, auxVars, hostVars>>
    \/ VsPutCell /\ UNCHANGED <<bufVars, uiVars, auxVars, hostVars>>
    \/ VsPutCells /\ UNCHANGED <<bufVars, uiVars, auxVars, hostVars>>
    \/ VsSwap /\ UNCHANGED <<bufVars, uiVars, auxVars, hostVars>>

SpecScreen == InitS /\ [][NextS]_vars

InitE ==
    /\ IdleBuffer
    /\ buf_curr = BufferNew(0, 0) /\ buf_prev = BufferNew(0, 0)
    /\ vop = NoCall /\ clean = FALSE
    /\ IdleUi
    /\ arg = NoLabel
    /\ InitEmit
    /\ IdleHost
    /\ panic = ""

NextE == EmApplyPatches /\ UNCHANGED <<bufVars, gridVars, vop, clean, uiVars, arg, panic, hostVars>>

SpecEmit == InitE /\ [][NextE]_vars

InitU ==
    /\ IdleBuffer
    /\ patches = <<>> /\ vop = NoCall /\ clean = FALSE
    /\ InitUi
    /\ arg = NoLabel
    /\ IdleHost
    /\ panic = ""

NextU ==
    \/ UiResize /\ UNCHANGED <<bufVars, driverVars, arg, hostVars>>
    \/ UiBegin /\ UNCHANGED <<bufVars, driverVars, arg, hostVars>>
    \/ UiBeginLayout /\ UNCHANGED <<bufVars, driverVars, arg, hostVars>>
    \/ UiEndLayout /\ UNCHANGED <<bufVars, driverVars, arg, hostVars>>
    \/ UiLabelFixedWidth /\ UNCHANGED <<bufVars, driverVars, arg, hostVars>>
    \/ UiLabelEdit /\ UNCHANGED <<bufVars, driverVars, arg, hostVars>>
    \/ UiLabel /\ UNCHANGED <<bufVars, driverVars, arg, hostVars>>
    \/ UiEnd /\ UNCHANGED <<bufVars, driverVars, arg, hostVars>>

SpecUi == InitU /\ [][NextU]_vars

InitD ==
    /\ IdleBuffer
    /\ patches = <<>> /\ vop = NoCall /\ clean = FALSE
    /\ InitDraw
    /\ IdleHost
    /\ panic = ""

NextD ==
    \/ DrBegin /\ UNCHANGED <<bufVars, driverVars, hostVars>>
    \/ DrLabelFixedWidth /\ UNCHANGED <<bufVars, driverVars, hostVars>>
    \/ DrLabelEdit /\ UNCHANGED <<bufVars, driverVars, hostVars>>
    \/ DrLabel /\ UNCHANGED <<bufVars, driverVars, hostVars>>
    \/ DrEnd /\ UNCHANGED <<bufVars, driverVars, hostVars>>

SpecDraw == InitD /\ [][NextD]_vars

InitT ==
    /\ IdleBuffer
    /\ patches = <<>> /\ vop = NoCall /\ clean = FALSE
    /\ InitTerm
    /\ app = AppNew /\ ev = NoEvent
    /\ panic = ""

NextT ==
    \/ TmBegin /\ UNCHANGED <<bufVars, driverVars, arg, app, ev>>
    \/ TmPutCell /\ UNCHANGED <<bufVars, driverVars, arg, app, ev>>
    \/ TmPutCells /\ UNCHANGED <<bufVars, driverVars, arg, app, ev>>
    \/ TmEnd /\ UNCHANGED <<bufVars, driverVars, arg, app, ev>>

SpecTerm == InitT /\ [][NextT]_vars

InitA ==
    /\ IdleBuffer
    /\ patches = <<>> /\ vop = NoCall /\ clean = FALSE
    /\ InitApp
    /\ arg = NoLabel
    /\ term = NoTerminal
    /\ panic = ""

NextA ==
    \/ EvResize /\ UNCHANGED <<bufVars, driverVars, arg, term>>
    \/ EvPaste /\ UNCHANGED <<bufVars, driverVars, arg, term>>
    \/ KeyEditChar /\ UNCHANGED <<bufVars, driverVars, arg, term>>
    \/ KeyEditLeft /\ UNCHANGED <<bufVars, driverVars, arg, term>>
    \/ KeyEditRight /\ UNCHANGED <<bufVars, driverVars, arg, term>>
    \/ KeyEditHome /\ UNCHANGED <<bufVars, driverVars, arg, term>>
    \/ KeyEditEnd /\ UNCHANGED <<bufVars, driverVars, arg, term>>
    \/ KeyEditBackspace /\ UNCHANGED <<bufVars, driverVars, arg, term>>
    \/ KeyEditLeave /\ UNCHANGED <<bufVars, driverVars, arg, term>>
    \/ KeyQuit /\ UNCHANGED <<bufVars, driverVars, arg, term>>
    \/ KeyEnter /\ UNCHANGED <<bufVars, driverVars, arg, term>>
    \/ KeyTab /\ UNCHANGED <<bufVars, driverVars, arg, term>>
    \/ KeyUp /\ UNCHANGED <<bufVars, driverVars, arg, term>>
    \/ KeyDown /\ UNCHANGED <<bufVars, driverVars, arg, term>>
    \/ KeyLeft /\ UNCHANGED <<bufVars, driverVars, arg, term>>
    \/ KeyRight /\ UNCHANGED <<bufVars, driverVars, arg, term>>
    \/ KeyDelete /\ UNCHANGED <<bufVars, driverVars, arg, term>>
    \/ KeyInsert /\ UNCHANGED <<bufVars, driverVars, arg, term>>

SpecApp == InitA /\ [][NextA]_vars

(***************************************************************************)
(* Claims about Buffer and VirtualScreen                                   *)
(***************************************************************************)
\* The coordinates of a grid, and those at which two grids differ.
Coords(b) == (0..(b.width - 1)) \X (0..(b.height - 1))
DiffersAt(a, b) == {c \in Coords(a) : CellAt(a, c[1], c[2]) # CellAt(b, c[1], c[2])}
RowMajorBefore(p, q) == p.y < q.y \/ (p.y = q.y /\ p.x < q.x)

\* A grid overwritten with every patch of a list, in order.
RECURSIVE Overwrite(_, _)
Overwrite(b, ps) ==
    IF ps = <<>> THEN b
    ELSE Overwrite([b EXCEPT !.cells[ps[1].y * b.width + ps[1].x + 1] = ps[1].cell],
                   Tail(ps))

\* C1: after swap() and then no put_cell, put_cells or resize, the next
\* diff() returns the empty patch list.
C1_SteadyStateDiffEmpty == (vop = "diff" /\ panic = "" /\ clean) => patches = <<>>

\* C2: put_cells at an in-grid (x, y) writes the i-th character to (x+i, y)
\* exactly when x+i < width, drops the others, and modifies no other row.
C2_PutCellsTruncates ==
    [][(bop'.op = "put_cells" /\ bop'.x < buf.width /\ bop'.y < buf.height) =>
        \A c \in Coords(buf) :
            CellAt(buf', c[1], c[2]) =
                IF c[2] = bop'.y /\ c[1] >= bop'.x /\ c[1] - bop'.x < Len(bop'.chs)
                THEN Cell(bop'.chs[c[1] - bop'.x + 1], bop'.fg, bop'.bg)
                ELSE CellAt(buf, c[1], c[2])]_vars

\* C3: put_cell sets cell (x, y) and no other when x < width and y < height,
\* and leaves every cell unchanged when x >= width or y >= height.
C3_PutCellInBoundsOrNoop ==
    [][bop'.op = "put_cell" =>
        IF bop'.x < buf.width /\ bop'.y < buf.height
        THEN \A c \in Coords(buf) :
                CellAt(buf', c[1], c[2]) =
                    IF c = <<bop'.x, bop'.y>>
                    THEN Cell(bop'.chs[1], bop'.fg, bop'.bg)
                    ELSE CellAt(buf, c[1], c[2])
        ELSE buf' = buf]_vars

\* C4: A.diff(B) lists exactly the coordinates at which A and B differ, each
\* once, in row-major order (ascending y, then ascending x).
C4_DiffExactRowMajor ==
    (vop = "diff" /\ panic = "") =>
        /\ {<<patches[k].x, patches[k].y>> : k \in 1..Len(patches)}
               = DiffersAt(buf_prev, buf_curr)
        /\ \A j, k \in 1..Len(patches) :
               j < k => RowMajorBefore(patches[j], patches[k])

\* C4's case: a diff with patches in two rows, the later one further left.
C4_Witness ==
    /\ vop = "diff"
    /\ Len(patches) >= 2
    /\ \E j, k \in 1..Len(patches) :
           j < k /\ patches[j].y < patches[k].y /\ patches[j].x > patches[k].x

\* C5: every patch of VirtualScreen::diff() carries the current grid's cell
\* at its coordinate, and the previous grid overwritten with every patch
\* equals the current grid cell for cell.
C5_DiffTurnsPrevIntoCurr ==
    (vop = "diff" /\ panic = "") =>
        /\ \A k \in 1..Len(patches) :
               /\ <<patches[k].x, patches[k].y>> \in Coords(buf_curr)
               /\ patches[k].cell = CellAt(buf_curr, patches[k].x, patches[k].y)
        /\ Overwrite(buf_prev, patches).cells = buf_curr.cells

\* C5's case: a diff that both draws a written cell and blanks a stale one.
C5_Witness ==
    /\ vop = "diff"
    /\ \E k \in 1..Len(patches) : patches[k].cell # DefaultCell
    /\ \E k \in 1..Len(patches) : patches[k].cell = DefaultCell

\* C14: after resize(w, h) the grid has width w, height h and exactly w*h
\* cells, every one the default cell whatever it held before; and the cell
\* count equals width * height after every sequence of new, resize, clear,
\* put_cell and put_cells.
C14_ResizeBlankAndSized ==
    /\ Len(buf.cells) = buf.width * buf.height
    /\ bop.op = "resize" =>
           /\ buf.width = bop.x /\ buf.height = bop.y
           /\ Len(buf.cells) = bop.x * bop.y
           /\ \A i \in 1..Len(buf.cells) : buf.cells[i] = DefaultCell

\* C14's case: a resize to a 2x2 grid.
C14_Witness == bop.op = "resize" /\ bop.x = 2 /\ bop.y = 2 /\ Len(buf.cells) = 4

\* C15: in every reachable VirtualScreen state the current and the previous
\* grid have the same width and the same height, so diff() never fails on
\* its dimension check.
C15_GridsSameSize ==
    /\ buf_curr.width = buf_prev.width
    /\ buf_curr.height = buf_prev.height
    /\ Len(buf_curr.cells) = Len(buf_prev.cells)
    /\ panic # "diff"

\* C15's case: a diff() that ran to completion on a 2x2 screen whose grids
\* differ in content.
C15_Witness ==
    /\ vop = "diff" /\ panic = ""
    /\ buf_curr.width = 2 /\ buf_curr.height = 2
    /\ patches # <<>>

\* C19: a grid diffed against itself yields the empty patch list.
C19_SelfDiffEmpty == bop.op = "diff" => patches = <<>>

\* C19's case: the self-diff of a grid of four cells with written content.
C19_Witness ==
    /\ bop.op = "diff"
    /\ Len(buf.cells) = 4
    /\ \E i \in 1..Len(buf.cells) : buf.cells[i] # DefaultCell

(***************************************************************************)
(* Claims about apply_patches                                              *)
(***************************************************************************)
\* The index in a command list of its k-th Print.
PrintIndex(cmds, k) ==
    CHOOSE i \in 1..Len(cmds) :
        /\ cmds[i][1] = "Print"
        /\ Cardinality({j \in 1..i : cmds[j][1] = "Print"}) = k

\* Where the commands of the k-th patch begin: after the two colour commands
\* queued up front, or after the Print of the patch before.
GroupStart(cmds, k) == IF k = 1 THEN 3 ELSE PrintIndex(cmds, k - 1) + 1

\* The colour a terminal has active on a channel after a command list.
Active(cmds, set) ==
    LET at == {i \in 1..Len(cmds) : cmds[i][1] = set}
    IN IF at = {} THEN "unset"
       ELSE cmds[CHOOSE i \in at : \A j \in at : j <= i][2]

\* C12: apply_patches queues a cursor move to (x, y) before printing a patch
\* exactly when the patch does not immediately follow a patch at (x-1, y)
\* emitted earlier in the same call; the first patch of a call always gets
\* its move.
C12_MoveUnlessAdjacent ==
    out # <<>> =>
        \A k \in 1..Len(patches) :
            LET moved == \E i \in GroupStart(out, k)..PrintIndex(out, k) :
                             out[i] = MoveTo(patches[k].x, patches[k].y)
                follows == /\ k > 1
                           /\ patches[k - 1].y = patches[k].y
                           /\ patches[k - 1].x = patches[k].x - 1
            IN moved <=> ~follows

\* C13: a foreground (background) command is queued for a patch only when
\* the patch's foreground (background) differs from the last one queued,
\* each channel on its own, and every glyph is printed while the
\* terminal's active foreground and background are those of its patch.
C13_ColourCacheTransparent ==
    out # <<>> =>
        \A k \in 1..Len(patches) :
            LET from == GroupStart(out, k)
                to == PrintIndex(out, k)
                before == SubSeq(out, 1, from - 1)
                upto == SubSeq(out, 1, to)
            IN /\ out[to] = PrintCh(patches[k].cell.ch)
               /\ (\E i \in from..to : out[i][1] = "SetForegroundColor") =>
                      patches[k].cell.fg # Active(before, "SetForegroundColor")
               /\ (\E i \in from..to : out[i][1] = "SetBackgroundColor") =>
                      patches[k].cell.bg # Active(before, "SetBackgroundColor")
               /\ Active(upto, "SetForegroundColor") = patches[k].cell.fg
               /\ Active(upto, "SetBackgroundColor") = patches[k].cell.bg

\* C13's case: a call whose consecutive patches change the foreground alone,
\* the background alone, and neither.
C13_Witness ==
    /\ out # <<>>
    /\ \E k \in 1..(Len(patches) - 1) :
           /\ patches[k].cell.fg # patches[k + 1].cell.fg
           /\ patches[k].cell.bg = patches[k + 1].cell.bg
    /\ \E k \in 1..(Len(patches) - 1) :
           /\ patches[k].cell.fg = patches[k + 1].cell.fg
           /\ patches[k].cell.bg # patches[k + 1].cell.bg
    /\ \E k \in 1..(Len(patches) - 1) :
           /\ patches[k].cell.fg = patches[k + 1].cell.fg
           /\ patches[k].cell.bg = patches[k + 1].cell.bg

(***************************************************************************)
(* Claims about the layout stack                                           *)
(***************************************************************************)
LabelOps == {"label_fixed_width", "label", "label_edit"}

\* C6: every end() that completes leaves the layout stack empty, and an
\* end() called while two or more frames are open fails.
C6_EndNeedsExactlyOneFrame ==
    /\ (uop.op = "end" /\ panic = "") => layouts = <<>>
    /\ (uop.op = "end" /\ uop.depth >= 2) => panic = "end"

\* C7: end() with no frame open fails, and begin() while a frame is open
\* fails; neither call completes normally.
C7_RootDiscipline ==
    /\ (uop.op = "end" /\ uop.depth = 0) => panic = "end"
    /\ (uop.op = "begin" /\ uop.depth > 0) => panic = "begin"

\* C7's case: a second begin() while the first root is still open.
C7_Witness == uop.op = "begin" /\ uop.depth > 0 /\ panic = "begin"

\* C8: end_layout() with at least two open frames pops the top frame and
\* applies add_widget(its size) to the new top frame, changing no other
\* frame; with fewer than two open frames it fails.
C8_EndLayoutFolds ==
    [][uop'.op = "end_layout" =>
        LET n == Len(layouts)
        IN IF n >= 2
           THEN /\ panic' = ""
                /\ Len(layouts') = n - 1
                /\ layouts'[n - 1] = AddWidget(layouts[n - 1], layouts[n].size)
                /\ \A i \in 1..(n - 2) : layouts'[i] = layouts[i]
           ELSE panic' = "end_layout"]_vars

\* C8's case: the third frame closed, its size folded into the second.
C8_Witness ==
    /\ uop.op = "end_layout" /\ uop.depth = 3 /\ panic = ""
    /\ Len(layouts) = 2
    /\ layouts[2].size.x > 0 /\ layouts[2].size.y > 0

\* C9: an open Vert frame's size is (max of the widths, sum of the heights)
\* of what it received, a Horz frame's (sum of the widths, max of the
\* heights); a Horz root receiving (3,2) and (2,5) ends with (5,5).
C9_SizeAggregation ==
    /\ \A i \in 1..Len(layouts) :
           layouts[i].size = Vec2(added[i].w, added[i].h)
    /\ AddWidget(AddWidget(NewLayout("Horz", Vec2Null), Vec2(3, 2)),
                 Vec2(2, 5)).size = Vec2(5, 5)

\* C9's case: a Horz root that received two closed Vert frames, three and
\* two columns wide, the taller of them two rows high.
C9_Witness ==
    /\ uop.op = "end_layout" /\ panic = ""
    /\ Len(layouts) = 1
    /\ layouts[1].kind = "Horz"
    /\ layouts[1].size = Vec2(5, 2)

\* C10: the position handed to the next widget or nested frame of an open
\* frame is anchor + (0, height) for a Vert frame and anchor + (width, 0)
\* for a Horz frame.
C10_Placement ==
    [][(uop'.op \in LabelOps \cup {"begin_layout"} /\ layouts # <<>>) =>
        LET top == Top(layouts)
            place == IF top.kind = "Vert"
                     THEN Vec2(top.pos.x, top.pos.y + top.size.y)
                     ELSE Vec2(top.pos.x + top.size.x, top.pos.y)
        IN /\ uop'.pos = place
           /\ uop'.op = "begin_layout" => Top(layouts').pos = place]_vars

\* C10's case: begin(pos, Vert), two labels of widths 2 and 1: the second
\* is placed at pos + (0, 1) and the root's size is (2, 2).
C10_Witness ==
    /\ uop.op = "label" /\ panic = "" /\ nlabels = 2
    /\ Len(layouts) = 1
    /\ layouts[1].kind = "Vert"
    /\ layouts[1].pos = Vec2(1, 2)
    /\ uop.pos = Vec2(1, 3)
    /\ layouts[1].size = Vec2(2, 2)

\* C16: while a frame is open its accumulated size only grows: over every
\* label_fixed_width, label, label_edit and end_layout step that completes,
\* both components of the size of every frame still open are at least what
\* they were before the step.
C16_SizeOnlyGrows ==
    [][(uop'.op \in LabelOps \cup {"end_layout"} /\ panic' = "") =>
        \A i \in 1..Len(layouts') :
            /\ layouts'[i].size.x >= layouts[i].size.x
            /\ layouts'[i].size.y >= layouts[i].size.y]_vars

\* C16's case: a Vert root three columns wide after a second, narrower
\* label was added to it.
C16_Witness ==
    /\ uop.op = "label_edit" /\ panic = "" /\ nlabels = 2
    /\ Len(layouts) = 1
    /\ layouts[1].kind = "Vert"
    /\ layouts[1].size = Vec2(3, 2)

(***************************************************************************)
(* Claims about drawing labels and frames                                  *)
(***************************************************************************)
\* C11: label_fixed_width(text, width, fg, bg) placed at p with the text
\* shorter than width and the range on the screen leaves every cell
\* (p.x+i, p.y), 0 <= i < width, holding the i-th character of the text or
\* a blank, in colours (fg, bg), and modifies no cell outside that range.
C11_LabelOverwritesOwnRange ==
    [][(/\ uop'.op = "label_fixed_width" /\ panic' = ""
        /\ Len(arg'.text) < arg'.width
        /\ uop'.pos.x + arg'.width <= buf_curr.width
        /\ uop'.pos.y < buf_curr.height) =>
        \A c \in Coords(buf_curr) :
            CellAt(buf_curr', c[1], c[2]) =
                IF c[2] = uop'.pos.y /\ c[1] >= uop'.pos.x
                                     /\ c[1] < uop'.pos.x + arg'.width
                THEN IF c[1] - uop'.pos.x < Len(arg'.text)
                     THEN Cell(arg'.text[c[1] - uop'.pos.x + 1], arg'.fg, arg'.bg)
                     ELSE Cell(" ", arg'.fg, arg'.bg)
                ELSE CellAt(buf_curr, c[1], c[2])]_vars

\* C17: a label, label_edit or label_fixed_width call with no frame open
\* fails at once: it writes no cell of either grid and leaves the stack
\* empty.
C17_LabelNeedsFrame ==
    [][(uop'.op \in LabelOps /\ layouts = <<>>) =>
        /\ panic' = uop'.op
        /\ buf_curr' = buf_curr
        /\ buf_prev' = buf_prev
        /\ layouts' = <<>>]_vars

\* C17's case: label_edit failed between two frames, over a current grid
\* that holds what an earlier frame drew.
C17_Witness ==
    /\ panic = "label_edit" /\ uop.op = "label_edit" /\ uop.depth = 0
    /\ layouts = <<>>
    /\ \E i \in 1..Len(buf_curr.cells) : buf_curr.cells[i] # DefaultCell

\* C18: label(text) gives the open frame a widget of size (number of
\* characters of text, 1), also when the text holds multi-byte characters.
C18_LabelWidthIsCharCount ==
    [][(uop'.op = "label" /\ panic' = "") =>
        Top(layouts') = AddWidget(Top(layouts), Vec2(CharsCount(arg'.text), 1))]_vars

\* C20: every frame starts from a cleared current grid: between two frames
\* (after Ui::new or a completed Ui::end) no cell of the current grid holds
\* what an earlier frame wrote.
C20_FrameStartsCleared ==
    (layouts = <<>> /\ uop.op \in {"new", "end"} /\ panic = "") =>
        \A i \in 1..Len(buf_curr.cells) : buf_curr.cells[i] = DefaultCell

(***************************************************************************)
(* Claims about the terminal and the application                           *)
(***************************************************************************)
\* C21: with the terminal a grid and a cursor that advances one column per
\* printed glyph, after Ui::new and after every completed frame every
\* terminal cell equals the cell of the previous grid at its place.
C21_TerminalShowsFrame ==
    (uop.op \in {"new", "end"} /\ panic = "") => term.cells = buf_prev.cells

\* C22: no event makes the application index an item that does not exist:
\* Enter in view mode, a typed character, Backspace and End in edit mode,
\* and a Paste of any character are handled only while the active list is
\* non-empty and its cursor is below the number of its items.
C22_ItemAccessInRange ==
    [][(\/ ev'.kind = "Paste" /\ ev'.key = "data"
        \/ ev'.kind = "Key" /\ ~app.edit_mode /\ ev'.key = "Enter"
        \/ ev'.kind = "Key" /\ app.edit_mode
              /\ ev'.key \in {"Char", "Backspace", "End"}) =>
        /\ ActiveItems(app) # <<>>
        /\ ActiveCursor(app) < Len(ActiveItems(app))
        /\ panic' = ""]_vars

\* C23: in every state the key events reach, each of the two lists has
\* cursor < len(items) when it is non-empty and cursor = 0 when it is empty.
C23_CursorInRange ==
    \A i \in 1..2 :
        IF app.lists[i].items = <<>>
        THEN app.lists[i].cursor = 0
        ELSE app.lists[i].cursor < Len(app.lists[i].items)

\* C23's case: Delete emptied the Done list while the Todo list keeps an
\* item, and Delete left one item under the cursor.
C23_Witness ==
    /\ ev.kind = "Key" /\ ev.key = "Delete" /\ panic = ""
    /\ app.active_status = "Done"
    /\ ActiveItems(app) = <<>> /\ ActiveCursor(app) = 0
    /\ Len(app.lists[1].items) = 1

\* C24: after Resize(nw, nh) is handled both grids of the virtual screen
\* have width nw and height nh.
C24_ResizeEventSetsBothGrids ==
    ev.kind = "Resize" =>
        /\ buf_curr.width = ev.nw /\ buf_curr.height = ev.nh
        /\ buf_prev.width = ev.nw /\ buf_prev.height = ev.nh

====
